---------------------------- MODULE Spec2Model ----------------------------
(* Model of tensorflow/python/distribute/multi_process_lib.py:             *)
(* test_main, _set_spawn_exe_path, _if_spawn_run_and_exit, initialized.    *)
(* Strings are sequences of one-character strings, so that endswith,       *)
(* slicing, split, join and startswith are computed as Python computes     *)
(* them. Python's 0-based argv[i] is argv[i+1] here.                       *)
EXTENDS Integers, Sequences, FiniteSets, TLC

VARIABLES
  platform,          \* sys.platform
  fs,                \* the paths for which os.access(path, os.X_OK) is true
  argv,              \* sys.argv
  _test_main_called, \* the module global of line 73
  environ,           \* os.environ.get('TF_FORCE_GPU_ALLOW_GROWTH')
  spawn_exe,         \* the executable registered by set_executable
  pc,                \* where the process is
  error,             \* the exception that ended the current test_main call
  exit_status,       \* the status the process exited with
  is_spawned,        \* the local is_spawned of _if_spawn_run_and_exit
  tested,            \* the paths handed to os.access in this call, in order
  executed,          \* the snippets handed to exec, with sys.argv at that time
  runs,              \* invocations of test.main() in this call
  calls,             \* calls of test_main so far
  entry_argv,        \* sys.argv when the current call of test_main began
  entry_exe,         \* the registered executable when the current call began
  snippet,           \* how exec(cmd) ended in this call
  log                \* the steps of the current call of test_main, in order

vars == <<platform, fs, argv, _test_main_called, environ, spawn_exe, pc, error,
          exit_status, is_spawned, tested, executed, runs, calls, entry_argv,
          entry_exe, snippet, log>>

----------------------------------------------------------------------------
(* Bounds of the model *)

\* directories in front of the file name of an invocation path
MaxDirs == 3
\* command-line arguments after the program name
MaxArgs == 3
\* executable files in the filesystem
MaxExe == 2
\* calls of test_main in one process
MaxCalls == 2

----------------------------------------------------------------------------
(* String constants of the source *)

Sep == "/"
PySuffix == <<".", "p", "y">>
GpuSuffix == <<"_", "g", "p", "u">>
DashC == <<"-", "c">>
SpawnPrefix == <<"f", "r", "o", "m", " ", "m", "u", "l", "t", "i", "p", "r",
                 "o", "c", "e", "s", "s", "i", "n", "g", ".">>
Win32 == <<"w", "i", "n", "3", "2">>
Linux == <<"l", "i", "n", "u", "x">>

\* the value of a registered executable before set_executable is called
NoExe == <<"unset">>

----------------------------------------------------------------------------
(* Python string and list operations *)

\* s.endswith(suf)
EndsWith(s, suf) ==
  /\ Len(s) >= Len(suf)
  /\ SubSeq(s, Len(s) - Len(suf) + 1, Len(s)) = suf

\* s.startswith(pre)
StartsWith(s, pre) ==
  /\ Len(s) >= Len(pre)
  /\ SubSeq(s, 1, Len(pre)) = pre

\* s[:r] for a negative r: all but the last -r elements
SliceTo(s, r) == SubSeq(s, 1, Len(s) + r)

\* s.split(sep) for a one-character separator: empty components are kept
RECURSIVE SplitFrom(_, _, _, _)
SplitFrom(s, sep, i, cur) ==
  IF i > Len(s) THEN <<cur>>
  ELSE IF s[i] = sep THEN <<cur>> \o SplitFrom(s, sep, i + 1, <<>>)
  ELSE SplitFrom(s, sep, i + 1, Append(cur, s[i]))

Split(s, sep) == SplitFrom(s, sep, 1, <<>>)

\* sep.join(parts)
RECURSIVE Join(_, _)
Join(parts, sep) ==
  IF Len(parts) = 0 THEN <<>>
  ELSE IF Len(parts) = 1 THEN parts[1]
  ELSE parts[1] \o <<sep>> \o Join(Tail(parts), sep)

\* x in s
Contains(s, x) == \E i \in 1..Len(s) : s[i] = x

\* s.index(x), 0-based, for an x that s contains
Index(s, x) == (CHOOSE i \in 1..Len(s) : s[i] = x /\ \A j \in 1..(i - 1) : s[j] # x) - 1

\* os.access(path, os.X_OK)
Access(files, path) == path \in files

----------------------------------------------------------------------------
(* _is_enabled, lines 29-30 *)

_is_enabled_always(p) == TRUE

_is_enabled(p) == p # Win32

----------------------------------------------------------------------------
(* _set_spawn_exe_path, lines 76-113 *)

\* lines 96-97
GuessPath(path) == Split(SliceTo(path, -3), Sep)

ReductionRange_toN(n) == [i \in 1..n |-> -i]

\* range(-1, -len(guess_path), -1), line 98
ReductionRange(n) == [i \in 1..(n - 1) |-> -i]

\* lines 99-100
PossiblePath(guess_path, path_reduction) ==
  Join(SliceTo(guess_path, path_reduction) \o <<guess_path[Len(guess_path)]>>, Sep)

\* one iteration of the loop body tried against the filesystem, lines 99-108:
\* the paths it hands to os.access, and the path it found, if any
LoopBody_gpuFirst(files, guess_path, path_reduction) ==
  LET plain == PossiblePath(guess_path, path_reduction)
      gpu == plain \o GpuSuffix
  IN IF Access(files, gpu) THEN [found |-> TRUE, path |-> gpu, tried |-> <<gpu>>]
     ELSE IF Access(files, plain)
       THEN [found |-> TRUE, path |-> plain, tried |-> <<gpu, plain>>]
     ELSE [found |-> FALSE, path |-> <<>>, tried |-> <<gpu, plain>>]

LoopBody(files, guess_path, path_reduction) ==
  LET possible_path == PossiblePath(guess_path, path_reduction)
      gpu_path == possible_path \o GpuSuffix
  IN IF Access(files, possible_path)
       THEN [found |-> TRUE, path |-> possible_path, tried |-> <<possible_path>>]
     ELSE IF Access(files, gpu_path)
       THEN [found |-> TRUE, path |-> gpu_path, tried |-> <<possible_path, gpu_path>>]
     ELSE [found |-> FALSE, path |-> <<>>, tried |-> <<possible_path, gpu_path>>]

\* the for loop of lines 98-108 from its i-th iteration on
RECURSIVE Loop(_, _, _, _)
Loop(files, guess_path, range, i) ==
  IF i > Len(range) THEN [found |-> FALSE, path |-> <<>>, tried |-> <<>>]
  ELSE LET b == LoopBody(files, guess_path, range[i])
       IN IF b.found THEN b
          ELSE LET rest == Loop(files, guess_path, range, i + 1)
               IN [found |-> rest.found, path |-> rest.path,
                   tried |-> b.tried \o rest.tried]

\* lines 95-110: [found, path, tried]; found = FALSE is path_to_use is None
Search(files, path) ==
  LET guess_path == GuessPath(path)
  IN Loop(files, guess_path, ReductionRange(Len(guess_path)), 1)

IsPyPath_noDot(path) == EndsWith(path, <<"p", "y">>)

\* line 86
IsPyPath(path) == EndsWith(path, PySuffix)

Resolve_noRaise(files, path) ==
  IF IsPyPath(path)
    THEN LET s == Search(files, path)
         IN [raised |-> FALSE, path |-> IF s.found THEN s.path ELSE path,
             tried |-> s.tried]
    ELSE [raised |-> FALSE, path |-> path, tried |-> <<>>]

\* lines 86-111: whether RuntimeError is raised, the new sys.argv[0], and the
\* paths handed to os.access
Resolve(files, path) ==
  IF IsPyPath(path)
    THEN LET s == Search(files, path)
         IN IF ~s.found
              THEN [raised |-> TRUE, path |-> path, tried |-> s.tried]
              ELSE [raised |-> FALSE, path |-> s.path, tried |-> s.tried]
    ELSE [raised |-> FALSE, path |-> path, tried |-> <<>>]

----------------------------------------------------------------------------
(* _if_spawn_run_and_exit, lines 116-139 *)

\* lines 123-125: "yes", "no", or the IndexError of sys.argv[index + 1]
DetectSpawn(a) ==
  IF ~Contains(Tail(a), DashC) THEN "no"
  ELSE LET next == Index(a, DashC) + 1
       IN IF next >= Len(a) THEN "IndexError"
          ELSE IF StartsWith(a[next + 1], SpawnPrefix) THEN "yes"
          ELSE "no"

\* line 129
Cmd(a) == a[(Index(a, DashC) + 1) + 1]

Truncate_keepAll(a) == a

\* sys.argv[0:1], line 132
Truncate(a) == SubSeq(a, 1, 1)

\* what exec(cmd) can do: return, raise, or exit the process (SystemExit).
\* The snippet is multiprocessing's own bootstrap code: it is taken to assign
\* neither sys.argv nor _test_main_called.
SnippetOutcomes == {"returned", "raised", "exited"}
ExitCodes == {0, 1}

----------------------------------------------------------------------------
(* The states a process starts in *)

DirNames == <<"a", "b", "c", "d", "e", "f">>
FileName == <<"t">>

RECURSIVE DirChars(_)
DirChars(k) == IF k = 0 THEN <<>> ELSE DirChars(k - 1) \o <<DirNames[k], Sep>>

Root(abs) == IF abs THEN <<Sep>> ELSE <<>>

Suffixes == {PySuffix, <<>>, <<"p", "y">>}

\* the files named like the program in its directory or a directory above it
Related(abs, k) ==
  {Root(abs) \o DirChars(j) \o FileName \o g : j \in 0..k, g \in {<<>>, GpuSuffix}}

Snippet == SpawnPrefix \o <<"x">>
Other == <<"f", "r", "o", "m">>
ArgAlphabet == {DashC, Snippet, Other}
ArgTails == UNION {[1..n -> ArgAlphabet] : n \in 0..MaxArgs}

Platforms == {Linux, Win32}

\* a process that has just started, before test_main is called
Start(plat, files, prog, tail) ==
  /\ platform = plat
  /\ fs = files
  /\ argv = <<prog>> \o tail
  /\ _test_main_called = FALSE
  /\ environ = "unset"
  /\ spawn_exe = NoExe
  /\ pc = "idle"
  /\ error = "none"
  /\ exit_status = -1
  /\ is_spawned = "unknown"
  /\ tested = <<>>
  /\ executed = <<>>
  /\ runs = 0
  /\ calls = 0
  /\ entry_argv = <<prog>> \o tail
  /\ entry_exe = NoExe
  /\ snippet = "none"
  /\ log = <<>>

\* every argument vector of up to MaxArgs arguments, for a program that is a
\* file in the working directory or one directory below it, or is named '-c'
Init ==
  \E plat \in Platforms, k \in 0..1, suf \in Suffixes, tail \in ArgTails :
    \E files \in {f \in SUBSET Related(FALSE, k) : Cardinality(f) <= MaxExe},
       prog \in {DirChars(k) \o FileName \o suf, DashC} :
      Start(plat, files, prog, tail)

\* every invocation path of up to MaxDirs directories and every filesystem of
\* up to MaxExe executables, for a parent process and for a bootstrap child
InitPaths ==
  \E plat \in Platforms, abs \in BOOLEAN, k \in 0..MaxDirs, suf \in Suffixes,
     tail \in {<<>>, <<DashC, Snippet>>} :
    \E files \in {f \in SUBSET Related(abs, k) : Cardinality(f) <= MaxExe} :
      Start(plat, files, Root(abs) \o DirChars(k) \o FileName \o suf, tail)

----------------------------------------------------------------------------
(* test_main, lines 142-154, step by step *)

TestMain_Enter_noFlag ==
  /\ pc \in {"idle", "returned", "raised"}
  /\ calls < MaxCalls
  /\ calls' = calls + 1
  /\ _test_main_called' = _test_main_called
  /\ entry_argv' = argv
  /\ entry_exe' = spawn_exe
  /\ error' = "none"
  /\ is_spawned' = "unknown"
  /\ snippet' = "none"
  /\ tested' = <<>>
  /\ executed' = <<>>
  /\ runs' = 0
  /\ log' = <<"flag">>
  /\ pc' = "set_env"
  /\ UNCHANGED <<platform, fs, argv, environ, spawn_exe, exit_status>>

\* lines 144-145; a caller may call again after a return or a caught exception
TestMain_Enter ==
  /\ pc \in {"idle", "returned", "raised"}
  /\ calls < MaxCalls
  /\ calls' = calls + 1
  /\ _test_main_called' = TRUE
  /\ entry_argv' = argv
  /\ entry_exe' = spawn_exe
  /\ error' = "none"
  /\ is_spawned' = "unknown"
  /\ snippet' = "none"
  /\ tested' = <<>>
  /\ executed' = <<>>
  /\ runs' = 0
  /\ log' = <<"flag">>
  /\ pc' = "set_env"
  /\ UNCHANGED <<platform, fs, argv, environ, spawn_exe, exit_status>>

\* lines 147-149
TestMain_SetEnv ==
  /\ pc = "set_env"
  /\ environ' = "true"
  /\ log' = Append(log, "env")
  /\ pc' = IF _is_enabled(platform) THEN "resolve" ELSE "runner"
  /\ UNCHANGED <<platform, fs, argv, _test_main_called, spawn_exe, error,
                 exit_status, is_spawned, tested, executed, runs, calls,
                 entry_argv, entry_exe, snippet>>

\* line 154
TestMain_Run ==
  /\ pc = "runner"
  /\ runs' = runs + 1
  /\ log' = Append(log, "runner")
  /\ pc' = "returned"
  /\ UNCHANGED <<platform, fs, argv, _test_main_called, environ, spawn_exe,
                 error, exit_status, is_spawned, tested, executed, calls,
                 entry_argv, entry_exe, snippet>>

\* _set_spawn_exe_path, lines 76-113, called at line 150
SetSpawnExePath ==
  /\ pc = "resolve"
  /\ LET r == Resolve(fs, argv[1])
     IN /\ tested' = r.tried
        /\ IF r.raised
             THEN /\ pc' = "raised"
                  /\ error' = "RuntimeError"
                  /\ UNCHANGED <<argv, spawn_exe>>
             ELSE /\ argv' = [argv EXCEPT ![1] = r.path]
                  /\ spawn_exe' = r.path
                  /\ pc' = "dispatch"
                  /\ UNCHANGED error
  /\ log' = Append(log, "resolve")
  /\ UNCHANGED <<platform, fs, _test_main_called, environ, exit_status,
                 is_spawned, executed, runs, calls, entry_argv, entry_exe,
                 snippet>>

\* _if_spawn_run_and_exit up to exec, lines 123-132, called at line 151
IfSpawn_Detect ==
  /\ pc = "dispatch"
  /\ LET d == DetectSpawn(argv)
     IN /\ is_spawned' = d
        /\ IF d = "IndexError"
             THEN /\ pc' = "raised"
                  /\ error' = "IndexError"
                  /\ UNCHANGED argv
             ELSE IF d = "no"
               THEN /\ pc' = "runner"
                    /\ UNCHANGED <<argv, error>>
               ELSE /\ argv' = Truncate(argv)
                    /\ pc' = "exec"
                    /\ UNCHANGED error
  /\ log' = Append(log, "dispatch")
  /\ UNCHANGED <<platform, fs, _test_main_called, environ, spawn_exe,
                 exit_status, tested, executed, runs, calls, entry_argv,
                 entry_exe, snippet>>

\* exec(cmd), line 138; cmd was read at line 129, before the truncation
IfSpawn_Exec ==
  /\ pc = "exec"
  /\ executed' = Append(executed, [cmd |-> Cmd(entry_argv), argv |-> argv])
  /\ log' = Append(log, "exec")
  /\ \E out \in SnippetOutcomes :
       /\ snippet' = out
       /\ \/ /\ out = "returned"
             /\ pc' = "exit"
             /\ UNCHANGED <<error, exit_status>>
          \/ /\ out = "raised"
             /\ pc' = "raised"
             /\ error' = "SnippetError"
             /\ UNCHANGED exit_status
          \/ /\ out = "exited"
             /\ pc' = "exited"
             /\ exit_status' \in ExitCodes
             /\ UNCHANGED error
  /\ UNCHANGED <<platform, fs, argv, _test_main_called, environ, spawn_exe,
                 is_spawned, tested, runs, calls, entry_argv, entry_exe>>

\* sys.exit(0), line 139
IfSpawn_Exit ==
  /\ pc = "exit"
  /\ exit_status' = 0
  /\ log' = Append(log, "exit")
  /\ pc' = "exited"
  /\ UNCHANGED <<platform, fs, argv, _test_main_called, environ, spawn_exe,
                 error, is_spawned, tested, executed, runs, calls, entry_argv,
                 entry_exe, snippet>>

\* initialized(), lines 157-159
initialized == _test_main_called

Next ==
  \/ TestMain_Enter
  \/ TestMain_SetEnv
  \/ SetSpawnExePath
  \/ IfSpawn_Detect
  \/ IfSpawn_Exec
  \/ IfSpawn_Exit
  \/ TestMain_Run

Spec == Init /\ [][Next]_vars

SpecPaths == InitPaths /\ [][Next]_vars

----------------------------------------------------------------------------
(* Vocabulary of the properties *)

\* the invocation path the current call of test_main started with
InvocationPath == entry_argv[1]

\* _set_spawn_exe_path has run in the current call
Resolved == Len(log) >= 3 /\ log[3] = "resolve"

\* _if_spawn_run_and_exit has evaluated is_spawned in the current call
Dispatched == Len(log) >= 4 /\ log[4] = "dispatch"

\* sys.argv as _if_spawn_run_and_exit found it
ArgvAtDispatch == [entry_argv EXCEPT ![1] = spawn_exe]

Terminal == {"returned", "raised", "exited"}

\* the components p1..pn of a path without its last three characters
ComponentsOf(path) == Split(SubSeq(path, 1, Len(path) - 3), Sep)

\* p1/../p(level)/pn
Candidate(comps, level) ==
  Join(SubSeq(comps, 1, level) \o <<comps[Len(comps)]>>, Sep)

\* p1/../p(n-1)/pn, p1/../p(n-1)/pn_gpu, ..., p1/pn, p1/pn_gpu
ExpectedOrder(comps) ==
  LET n == Len(comps)
  IN [i \in 1..(2 * (n - 1)) |->
        LET c == Candidate(comps, n - ((i + 1) \div 2))
        IN IF i % 2 = 1 THEN c ELSE c \o GpuSuffix]

\* the positions of the sequence order that are executable
Hits(order) == {i \in 1..Len(order) : order[i] \in fs}

Least(S) == CHOOSE i \in S : \A j \in S : i <= j

\* a '-c' of the vector a, at position from or later, followed by an argument
\* that begins with 'from multiprocessing.'
SpawnPairFrom(a, from) ==
  \E i \in from..(Len(a) - 1) : a[i] = DashC /\ StartsWith(a[i + 1], SpawnPrefix)

Path_abct_py == <<"a", "/", "b", "/", "c", "/", "t", ".", "p", "y">>
Path_abt == <<"a", "/", "b", "/", "t">>
Path_at == <<"a", "/", "t">>
Path_at_gpu == <<"a", "/", "t", "_", "g", "p", "u">>
Path_abt_gpu == <<"a", "/", "b", "/", "t", "_", "g", "p", "u">>
Path_t_py == <<"t", ".", "p", "y">>
Path_t == <<"t">>
Path_t_gpu == <<"t", "_", "g", "p", "u">>

----------------------------------------------------------------------------
(* C1: for an invocation path ending in '.py' with components p1..pn, n >= 2,
   _set_spawn_exe_path hands to os.access exactly the candidates
   p1/../p(n-1)/pn, p1/../p(n-1)/pn_gpu, ..., p1/pn, p1/pn_gpu in this order,
   up to and including the first executable one, and on success sys.argv[0]
   and the registered executable are that first executable candidate; with
   a/b/c/t.py and only a/b/t executable the result is a/b/t, with only
   a/t_gpu executable it is a/t_gpu. *)
C1_CandidateOrder ==
  (Resolved /\ EndsWith(InvocationPath, PySuffix)) =>
    LET comps == ComponentsOf(InvocationPath)
        order == ExpectedOrder(comps)
        hits == Hits(order)
    IN Len(comps) >= 2 =>
         /\ IF hits = {}
              THEN tested = order
              ELSE /\ tested = SubSeq(order, 1, Least(hits))
                   /\ error # "RuntimeError"
                   /\ argv[1] = order[Least(hits)]
                   /\ spawn_exe = order[Least(hits)]
         /\ (InvocationPath = Path_abct_py /\ fs = {Path_abt}) =>
              (argv[1] = Path_abt /\ spawn_exe = Path_abt)
         /\ (InvocationPath = Path_abct_py /\ fs = {Path_at_gpu}) =>
              (argv[1] = Path_at_gpu /\ spawn_exe = Path_at_gpu)

\* a/b/c/t.py with a/b/t_gpu and a/t both executable: the more specific
\* a/b/t_gpu wins after a/b/c/t, a/b/c/t_gpu and a/b/t were refused
C1_Witness ==
  /\ Resolved
  /\ InvocationPath = Path_abct_py
  /\ fs = {Path_abt_gpu, Path_at}
  /\ Len(tested) = 4
  /\ argv[1] = Path_abt_gpu
  /\ spawn_exe = Path_abt_gpu

(* C2: when the invocation path ends in '.py' and no candidate, plain or
   '_gpu', of any level is executable, _set_spawn_exe_path raises the
   RuntimeError, sys.argv is as it was and no executable is registered. *)
C2_NoCandidateRaises ==
  (Resolved /\ EndsWith(InvocationPath, PySuffix)) =>
    (Hits(ExpectedOrder(ComponentsOf(InvocationPath))) = {} =>
       /\ pc = "raised"
       /\ error = "RuntimeError"
       /\ argv = entry_argv
       /\ spawn_exe = entry_exe
       /\ (calls = 1 => spawn_exe = NoExe))

\* a path with candidates, and executables that are none of them
C2_Witness ==
  /\ Resolved
  /\ EndsWith(InvocationPath, PySuffix)
  /\ Len(ComponentsOf(InvocationPath)) >= 3
  /\ fs = {Path_t, Path_t_gpu}
  /\ error = "RuntimeError"

(* C3: when the invocation path does not end in '.py', _set_spawn_exe_path
   hands no path to os.access, raises nothing, leaves sys.argv[0] as it was
   and registers that original path as the executable, whatever is
   executable. *)
C3_NonPyIsNoOp ==
  (Resolved /\ ~EndsWith(InvocationPath, PySuffix)) =>
    /\ tested = <<>>
    /\ error # "RuntimeError"
    /\ argv[1] = InvocationPath
    /\ spawn_exe = InvocationPath

\* a path that ends in 'py' but not in '.py', with executables around
C3_Witness ==
  /\ Resolved
  /\ ~EndsWith(InvocationPath, PySuffix)
  /\ EndsWith(InvocationPath, <<"p", "y">>)
  /\ Cardinality(fs) = 2
  /\ spawn_exe = InvocationPath

(* C10: when the '.py' invocation path has a single component, the candidate
   loop runs zero times (no path is handed to os.access) and resolution
   raises the RuntimeError, whatever is executable; and whatever the path,
   every candidate handed to os.access keeps the first component p1 in
   front of at least one more component. *)
C10_SingleComponentFails ==
  (Resolved /\ EndsWith(InvocationPath, PySuffix)) =>
    LET comps == ComponentsOf(InvocationPath)
    IN /\ Len(comps) = 1 =>
            /\ tested = <<>>
            /\ pc = "raised"
            /\ error = "RuntimeError"
            /\ argv = entry_argv
       /\ \A i \in 1..Len(tested) :
            LET c == Split(tested[i], Sep)
            IN Len(c) >= 2 /\ c[1] = comps[1]

\* t.py with both t and t_gpu executable
C10_Witness ==
  /\ Resolved
  /\ InvocationPath = Path_t_py
  /\ fs = {Path_t, Path_t_gpu}
  /\ error = "RuntimeError"

\* the arguments that follow a '-c' of the vector a and begin with
\* 'from multiprocessing.'
SnippetsOf(a) ==
  {a[i + 1] : i \in {j \in 1..(Len(a) - 1) :
                       a[j] = DashC /\ StartsWith(a[j + 1], SpawnPrefix)}}

(* C4 as stated: whenever _if_spawn_run_and_exit detects spawn mode it
   truncates sys.argv to the program name, then executes the snippet that
   followed '-c', then terminates the process with exit status 0, and never
   returns to its caller. *)
C4_AsClaimed ==
  is_spawned = "yes" =>
    /\ argv = <<spawn_exe>>
    /\ pc \in {"exec", "exit", "exited"}
    /\ (pc = "exec" => executed = <<>>)
    /\ (pc # "exec" =>
          /\ Len(executed) = 1
          /\ executed[1].argv = <<spawn_exe>>
          /\ executed[1].cmd \in SnippetsOf(entry_argv))
    /\ (pc = "exited" => exit_status = 0)
    /\ runs = 0

(* C4, amended: whenever _if_spawn_run_and_exit detects spawn mode it
   truncates sys.argv to the program name, then executes the snippet that
   followed '-c' (which sees the truncated vector), and then, when the
   snippet returns normally, terminates the process with exit status 0; a
   snippet that raises or exits the process itself ends the call with that
   exception or exit instead. In no case does it return normally to its
   caller, and test.main() is not reached. *)
C4_SpawnSteps ==
  is_spawned = "yes" =>
    /\ argv = <<spawn_exe>>
    /\ pc \in {"exec", "exit", "exited", "raised"}
    /\ (pc = "exec" => executed = <<>> /\ snippet = "none")
    /\ (pc # "exec" =>
          /\ Len(executed) = 1
          /\ executed[1].argv = <<spawn_exe>>
          /\ executed[1].cmd \in SnippetsOf(entry_argv))
    /\ (snippet = "returned" =>
          /\ pc \in {"exit", "exited"}
          /\ pc = "exit" => exit_status = -1
          /\ pc = "exited" => exit_status = 0)
    /\ (pc = "exit" => snippet = "returned")
    /\ (pc = "raised" => snippet = "raised" /\ error = "SnippetError")
    /\ runs = 0

\* a bootstrap child with further arguments whose snippet returned and that
\* exited with status 0
C4_Witness ==
  /\ is_spawned = "yes"
  /\ Len(entry_argv) = 4
  /\ argv = <<spawn_exe>>
  /\ snippet = "returned"
  /\ pc = "exited"
  /\ exit_status = 0

(* C5 as stated: for every argument vector without a '-c' immediately
   followed by an argument beginning with 'from multiprocessing.',
   _if_spawn_run_and_exit returns normally without raising, executes no
   snippet, does not exit the process and leaves sys.argv unchanged;
   vectors whose last argument is '-c' included. *)
C5_AsClaimed ==
  (Dispatched /\ ~SpawnPairFrom(ArgvAtDispatch, 1)) =>
    /\ error = "none"
    /\ pc \in {"runner", "returned"}
    /\ executed = <<>>
    /\ exit_status = -1
    /\ argv = ArgvAtDispatch

(* C9 as stated: _if_spawn_run_and_exit detects spawn mode exactly when the
   arguments after the program name contain a '-c' whose following argument
   begins with 'from multiprocessing.', for every argument vector. *)
C9_AsClaimed ==
  Dispatched => ((is_spawned = "yes") <=> SpawnPairFrom(ArgvAtDispatch, 2))

(* C6 as stated: in test_main on a platform other than win32, a bootstrap
   child terminates inside test_main with exit status 0 and test.main() is
   never invoked; when the dispatcher does not detect spawn mode and
   resolution succeeded, test.main() is invoked exactly once. *)
C6_AsClaimed ==
  (platform # Win32 /\ Dispatched) =>
    /\ is_spawned = "yes" =>
         /\ runs = 0
         /\ pc \in Terminal => (pc = "exited" /\ exit_status = 0)
    /\ (is_spawned # "yes" /\ pc \in Terminal) => runs = 1

(* C7: test_main records initialization, then sets
   TF_FORCE_GPU_ALLOW_GROWTH to 'true', then, only when the platform is not
   win32, runs path resolution and then the dispatcher, and only after these
   calls test.main(); on win32 neither runs, sys.argv and the registered
   executable are untouched and test.main() is called. *)
C7_StepOrder ==
  LET full == IF platform = Win32
                THEN <<"flag", "env", "runner">>
                ELSE <<"flag", "env", "resolve", "dispatch", "runner">>
      head == IF platform = Win32 THEN 2 ELSE 4
  IN /\ \A i \in 1..Len(log) :
          /\ i <= head => log[i] = full[i]
          /\ log[i] = "runner" => i = head + 1
     /\ Len(log) >= 1 => _test_main_called
     /\ (Len(log) = 1 /\ calls = 1) => environ = "unset"
     /\ Len(log) >= 2 => environ = "true"
     /\ (pc \in {"runner", "returned"} /\ calls >= 1) => Len(log) >= head
     /\ pc = "returned" => (runs = 1 /\ log[Len(log)] = "runner")
     /\ platform = Win32 =>
          /\ tested = <<>>
          /\ is_spawned = "unknown"
          /\ executed = <<>>
          /\ argv = entry_argv
          /\ spawn_exe = NoExe
          /\ pc \in {"idle", "set_env", "runner", "returned"}

\* on win32 a '.py' program started like a bootstrap child reaches test.main()
C7_Witness ==
  /\ platform = Win32
  /\ EndsWith(InvocationPath, PySuffix)
  /\ SpawnPairFrom(entry_argv, 2)
  /\ log = <<"flag", "env", "runner">>
  /\ pc = "returned"
  /\ argv = entry_argv

(* C8: initialized() is true exactly when test_main has been entered in the
   process: false before the first call, true from then on, also after
   test_main raised the RuntimeError or exited as a bootstrap child. *)
C8_InitializedIffEntered ==
  initialized <=> calls > 0

\* test_main was called again after its first call raised the RuntimeError,
\* and raised it again
C8_Witness ==
  /\ initialized
  /\ calls = 2
  /\ pc = "raised"
  /\ error = "RuntimeError"

=============================================================================
